---- MODULE Spec2Model ----
(***************************************************************************)
(* Model of the forecasting wizard's column-selection stage                *)
(* (frontend/src/components/ColumnSelector.js) and of the part of App.js   *)
(* that mounts it and receives the forecast results, of the results stage  *)
(* (frontend/src/components/ForecastResults.js) and of the upload stage    *)
(* (frontend/src/components/FileUpload.js).                                *)
(*                                                                         *)
(* Text typed into the periods field is a sequence of one-character        *)
(* strings, so that parseInt and toString are computed, not assumed.       *)
(* A React event is one atomic step: the handler, the render it causes     *)
(* and the validation effect of that render (which runs only when one of   *)
(* its dependencies changed).                                              *)
(***************************************************************************)
EXTENDS Integers, Sequences, FiniteSets, TLC

VARIABLES
    columnHeaders,      \* prop: the headers of the uploaded file (a sequence)
    file,               \* prop: the uploaded file object, or NoFile
    selectedColumns,    \* state: role -> column name ("" = not selected)
    selectedFrequency,  \* state
    forecastPeriods,    \* state: a number or the raw text, see PeriodsValue
    errorMessage,       \* state
    canRunForecast,     \* state
    isLoadingForecast,  \* state
    pending,            \* POST /forecast requests sent and not yet resolved
    forecastResults,    \* App state: what handleForecastComplete stored
    lastEvent,          \* the event handled last: [type, value]
    results,            \* prop of ForecastResults: the response to show
    rendered,           \* what ForecastResults returned for it
    uploadInfo,         \* App state: the body of the /upload response
    uploadedFile,       \* App state: the file handleFileUploadSuccess was given
    selectedFile,       \* FileUpload state: the file chosen in the input
    message,            \* FileUpload state
    isLoading,          \* FileUpload state: an upload is in progress
    uploading           \* POST /upload requests sent and not yet resolved

vars == <<columnHeaders, file, selectedColumns, selectedFrequency, forecastPeriods,
          errorMessage, canRunForecast, isLoadingForecast, pending,
          forecastResults, lastEvent, results, rendered,
          uploadInfo, uploadedFile, selectedFile, message, isLoading, uploading>>

\* the state of App and FileUpload that belongs to the upload stage
uploadVars ==
    <<uploadInfo, uploadedFile, selectedFile, message, isLoading, uploading>>

-----------------------------------------------------------------------------
(* Bounds of the model *)

\* the uploaded file has at most this many columns
MaxHeaders == 2

\* requests the model lets be outstanding at once before it stops issuing more
MaxPending == 2

-----------------------------------------------------------------------------
(* Constants of ColumnSelector.js *)

COLUMN_TYPES == <<"Date Column", "Value Column", "Aggregation Column (Optional)">>

FORECAST_FREQUENCIES == <<"Daily", "Weekly", "Monthly", "Quarterly", "Yearly">>

Range(s) == {s[i] : i \in DOMAIN s}

Roles == Range(COLUMN_TYPES)

Frequencies == Range(FORECAST_FREQUENCIES)

MsgPositiveInteger == "Please enter a positive integer for forecast periods."
MsgSelectFrequency == "Please select a forecasting frequency."
MsgSameColumns == "Date and Value columns cannot be the same."
MsgNotInData == "One or more selected columns are not in the original data."
MsgIncomplete == "Please complete valid selections and periods."
MsgMissingFile == "Error: Original file data is missing."
MsgNoResponse == "Forecasting failed: No response from server. Is the backend running and reachable?"

-----------------------------------------------------------------------------
(* Sample data *)

\* column names of an uploaded file, in file order
SampleHeaders == <<"Date", "Sales", "Region">>

ColumnUniverse == Range(SampleHeaders)

NoFile == "null"
TheFile == "data.csv"

\* texts a number input can report as its value
PeriodInputs ==
    { <<>>, <<"0">>, <<"-", "1">>, <<"2">>, <<"2", ".", "5">>, <<".", "5">> }

-----------------------------------------------------------------------------
(* Text and numbers *)

DigitChars == <<"0", "1", "2", "3", "4", "5", "6", "7", "8", "9">>

IsDigit(c) == \E i \in DOMAIN DigitChars : DigitChars[i] = c

DigitVal(c) == (CHOOSE i \in DOMAIN DigitChars : DigitChars[i] = c) - 1

\* the longest prefix of s made of digits
RECURSIVE DigitPrefix(_)
DigitPrefix(s) ==
    IF s = <<>> \/ ~IsDigit(Head(s)) THEN <<>>
    ELSE <<Head(s)>> \o DigitPrefix(Tail(s))

RECURSIVE DigitsValue(_, _)
DigitsValue(s, acc) ==
    IF s = <<>> THEN acc ELSE DigitsValue(Tail(s), 10 * acc + DigitVal(Head(s)))

RECURSIVE StripLeadingSpace(_)
StripLeadingSpace(s) ==
    IF s # <<>> /\ Head(s) = " " THEN StripLeadingSpace(Tail(s)) ELSE s

\* parseInt(value, 10): [isNaN, n]
ParseInt(value) ==
    LET t == StripLeadingSpace(value)
        signed == t # <<>> /\ Head(t) \in {"-", "+"}
        body == IF signed THEN Tail(t) ELSE t
        digits == DigitPrefix(body)
        magnitude == DigitsValue(digits, 0)
    IN  IF digits = <<>> THEN [isNaN |-> TRUE, n |-> 0]
        ELSE [isNaN |-> FALSE,
              n |-> IF signed /\ Head(t) = "-" THEN 0 - magnitude ELSE magnitude]

RECURSIVE NatToStr(_)
NatToStr(n) ==
    IF n < 10 THEN <<DigitChars[n + 1]>>
    ELSE NatToStr(n \div 10) \o <<DigitChars[(n % 10) + 1]>>

\* Number.prototype.toString() of an integer
IntToStr(n) == IF n < 0 THEN <<"-">> \o NatToStr(0 - n) ELSE NatToStr(n)

\* The value of the forecastPeriods state: a number (isInt, n) or raw text.
NumberValue(n) == [isInt |-> TRUE, n |-> n, raw |-> <<>>]
RawValue(text) == [isInt |-> FALSE, n |-> 0, raw |-> text]

\* forecastPeriods.toString(), also what the controlled input displays
PeriodsToString(p) == IF p.isInt THEN IntToStr(p.n) ELSE p.raw

-----------------------------------------------------------------------------
(* ColumnSelector: the validation effect *)

\* Number.isInteger(forecastPeriods) && forecastPeriods > 0
PeriodsValid(periods) == periods.isInt /\ periods.n > 0

\* The if/else on the required selections: what it sets.
RequiredBranches(cols, freq, periods) ==
    LET dateSelected == cols["Date Column"] # ""
        valueSelected == cols["Value Column"] # ""
        frequencySelected == freq # ""
        periodsValid == PeriodsValid(periods)
    IN  IF dateSelected /\ valueSelected /\ frequencySelected /\ periodsValid
        THEN IF cols["Date Column"] = cols["Value Column"]
             THEN [errorMessage |-> MsgSameColumns, canRunForecast |-> FALSE]
             ELSE [errorMessage |-> "", canRunForecast |-> TRUE]
        ELSE [errorMessage |->
                  IF ~periodsValid THEN MsgPositiveInteger
                  ELSE IF ~frequencySelected THEN MsgSelectFrequency
                  ELSE "",
              canRunForecast |-> FALSE]

\* Object.values(selectedColumns).some(col => col !== '' && !columnHeaders.includes(col))
NotInOriginalData(cols, headers) ==
    \E r \in Roles : cols[r] # "" /\ cols[r] \notin Range(headers)

\* the effect without the comparison of the Date and Value columns
ValidationEffectNoDuplicateCheck(cols, freq, periods, headers) ==
    IF NotInOriginalData(cols, headers)
    THEN [errorMessage |-> MsgNotInData, canRunForecast |-> FALSE]
    ELSE IF cols["Date Column"] # "" /\ cols["Value Column"] # "" /\ freq # ""
            /\ PeriodsValid(periods)
    THEN [errorMessage |-> "", canRunForecast |-> TRUE]
    ELSE RequiredBranches(cols, freq, periods)

\* the effect reporting incomplete selections as an error
ValidationEffectIncompleteMessage(cols, freq, periods, headers) ==
    LET v == RequiredBranches(cols, freq, periods)
    IN  IF NotInOriginalData(cols, headers)
        THEN [errorMessage |-> MsgNotInData, canRunForecast |-> FALSE]
        ELSE IF ~v.canRunForecast /\ v.errorMessage = ""
        THEN [errorMessage |-> MsgIncomplete, canRunForecast |-> FALSE]
        ELSE v

\* The body of the validation useEffect: the errorMessage and canRunForecast
\* it leaves. Its last check overwrites what the branches before it set.
ValidationEffect(cols, freq, periods, headers) ==
    IF NotInOriginalData(cols, headers)
    THEN [errorMessage |-> MsgNotInData, canRunForecast |-> FALSE]
    ELSE RequiredBranches(cols, freq, periods)

\* a dependency array that leaves forecastPeriods out
DepsChangedWithoutPeriods(newObject, freq, periods) ==
    \/ newObject
    \/ freq # selectedFrequency

\* useEffect's dependency array: the effect runs after a render in which a
\* dependency is not Object.is-equal to its value in the render before.
\* setSelectedColumns always stores a fresh object; columnHeaders is a prop
\* that keeps its identity.
DepsChanged(newObject, freq, periods) ==
    \/ newObject
    \/ freq # selectedFrequency
    \/ periods # forecastPeriods

\* The render after a handler: the state the handler set, then the effect.
AfterRender(text, cols, freq, periods, newObject) ==
    IF DepsChanged(newObject, freq, periods)
    THEN ValidationEffect(cols, freq, periods, columnHeaders)
    ELSE [errorMessage |-> text, canRunForecast |-> canRunForecast]

\* App renders ColumnSelector while no forecast results are stored.
Truthy(value) == value \notin {"null", "undefined", ""}

Mounted == ~Truthy(forecastResults)

\* React calls onChange only when the element's value differs from the one
\* it last rendered.
ChangeFires(shown, value) == shown # value

-----------------------------------------------------------------------------
(* ColumnSelector: the input handlers *)

handleSelectChange(columnType, selectedValue) ==
    /\ Mounted
    /\ ChangeFires(selectedColumns[columnType], selectedValue)
    /\ LET cols == [selectedColumns EXCEPT ![columnType] = selectedValue]
           v == AfterRender("", cols, selectedFrequency, forecastPeriods, TRUE)
       IN  /\ selectedColumns' = cols
           /\ errorMessage' = v.errorMessage
           /\ canRunForecast' = v.canRunForecast
    /\ lastEvent' = [type |-> "change", value |-> <<>>]
    /\ UNCHANGED <<results, rendered, uploadVars>>
    /\ UNCHANGED <<columnHeaders, file, selectedFrequency, forecastPeriods,
                   isLoadingForecast, pending, forecastResults>>

handleFrequencyChange(value) ==
    /\ Mounted
    /\ ChangeFires(selectedFrequency, value)
    /\ LET v == AfterRender("", selectedColumns, value, forecastPeriods, FALSE)
       IN  /\ selectedFrequency' = value
           /\ errorMessage' = v.errorMessage
           /\ canRunForecast' = v.canRunForecast
    /\ lastEvent' = [type |-> "change", value |-> <<>>]
    /\ UNCHANGED <<results, rendered, uploadVars>>
    /\ UNCHANGED <<columnHeaders, file, selectedColumns, forecastPeriods,
                   isLoadingForecast, pending, forecastResults>>

\* isNaN(intValue) ? value : intValue
PeriodsValue(value) ==
    LET intValue == ParseInt(value)
    IN  IF intValue.isNaN THEN RawValue(value) ELSE NumberValue(intValue.n)

handlePeriodsChange(value) ==
    /\ Mounted
    /\ ChangeFires(PeriodsToString(forecastPeriods), value)
    /\ LET periods == PeriodsValue(value)
           v == AfterRender("", selectedColumns, selectedFrequency, periods, FALSE)
       IN  /\ forecastPeriods' = periods
           /\ errorMessage' = v.errorMessage
           /\ canRunForecast' = v.canRunForecast
    /\ lastEvent' = [type |-> "periods", value |-> value]
    /\ UNCHANGED <<results, rendered, uploadVars>>
    /\ UNCHANGED <<columnHeaders, file, selectedColumns, selectedFrequency,
                   isLoadingForecast, pending, forecastResults>>

-----------------------------------------------------------------------------
(* ColumnSelector: the forecast request *)

\* the useState initial values
InitialColumns == [r \in Roles |-> ""]
InitialFrequency == "Daily"
InitialPeriods == NumberValue(12)

RECURSIVE ToText(_)
ToText(chars) == IF chars = <<>> THEN "" ELSE Head(chars) \o ToText(Tail(chars))

\* JSON.stringify of the selections object: its members in key order.
JsonStringify(cols) == [i \in DOMAIN COLUMN_TYPES |-> <<COLUMN_TYPES[i], cols[COLUMN_TYPES[i]]>>]

\* the FormData without the frequency field
FormDataWithoutFrequency(f, cols, freq, periods) ==
    << <<"file", f>>,
       <<"selectedColumns", JsonStringify(cols)>>,
       <<"forecastPeriods", PeriodsToString(periods)>> >>

\* The FormData handleRunForecast builds: its entries in append order.
FormData(f, cols, freq, periods) ==
    << <<"file", f>>,
       <<"selectedColumns", JsonStringify(cols)>>,
       <<"selectedFrequency", freq>>,
       <<"forecastPeriods", PeriodsToString(periods)>> >>

\* the button without the loading flag in its disabled attribute
ButtonEnabledWhileLoading == canRunForecast

\* disabled={!canRunForecast || isLoadingForecast}
ButtonEnabled == canRunForecast /\ ~isLoadingForecast

\* handleRunForecast without the check that the file is there
handleRunForecastNoFileCheck ==
    /\ Mounted
    /\ ButtonEnabled
    /\ Len(pending) < MaxPending
    /\ IF ~canRunForecast
       THEN /\ errorMessage' = MsgIncomplete
            /\ UNCHANGED <<isLoadingForecast, pending>>
       ELSE /\ errorMessage' = ""
            /\ isLoadingForecast' = TRUE
            /\ pending' = Append(pending,
                   FormData(file, selectedColumns, selectedFrequency, forecastPeriods))
    /\ lastEvent' = [type |-> "run", value |-> <<>>]
    /\ UNCHANGED <<results, rendered, uploadVars>>
    /\ UNCHANGED <<columnHeaders, file, selectedColumns, selectedFrequency,
                   forecastPeriods, canRunForecast, forecastResults>>

\* handleRunForecast returning from its first check without a message
handleRunForecastCallSilent ==
    /\ IF ~canRunForecast
       THEN UNCHANGED <<errorMessage, isLoadingForecast, pending>>
       ELSE IF file = NoFile
       THEN /\ errorMessage' = MsgMissingFile
            /\ isLoadingForecast' = FALSE
            /\ UNCHANGED pending
       ELSE /\ errorMessage' = ""
            /\ isLoadingForecast' = TRUE
            /\ pending' = Append(pending,
                   FormData(file, selectedColumns, selectedFrequency, forecastPeriods))
    /\ lastEvent' = [type |-> "run", value |-> <<>>]
    /\ UNCHANGED <<results, rendered, uploadVars>>
    /\ UNCHANGED <<columnHeaders, file, selectedColumns, selectedFrequency,
                   forecastPeriods, canRunForecast, forecastResults>>

\* A call of handleRunForecast: the part that runs before the await.
handleRunForecastCall ==
    /\ IF ~canRunForecast
       THEN /\ errorMessage' = MsgIncomplete
            /\ UNCHANGED <<isLoadingForecast, pending>>
       ELSE IF file = NoFile
       THEN /\ errorMessage' = MsgMissingFile
            /\ isLoadingForecast' = FALSE
            /\ UNCHANGED pending
       ELSE /\ errorMessage' = ""
            /\ isLoadingForecast' = TRUE
            /\ pending' = Append(pending,
                   FormData(file, selectedColumns, selectedFrequency, forecastPeriods))
    /\ lastEvent' = [type |-> "run", value |-> <<>>]
    /\ UNCHANGED <<results, rendered, uploadVars>>
    /\ UNCHANGED <<columnHeaders, file, selectedColumns, selectedFrequency,
                   forecastPeriods, canRunForecast, forecastResults>>

\* A click on the Run Forecast button, which calls handleRunForecast unless
\* the button is disabled.
handleRunForecast ==
    /\ Mounted
    /\ ButtonEnabled
    /\ Len(pending) < MaxPending
    /\ handleRunForecastCall

RemoveAt(s, i) == SubSeq(s, 1, i - 1) \o SubSeq(s, i + 1, Len(s))

\* bodies of a 2xx response: a JSON object with the forecast, or the JSON
\* value null, which axios hands over as null
ResponseBodies == {"forecast", "null"}

\* what axios rejects with
Errors ==
    { [kind |-> "response", status |-> 500, error |-> "Forecasting error",
       statusText |-> "Internal Server Error", details |-> "bad column", message |-> ""],
      [kind |-> "response", status |-> 400, error |-> "",
       statusText |-> "", details |-> "", message |-> ""],
      [kind |-> "request", status |-> 0, error |-> "",
       statusText |-> "", details |-> "", message |-> "timeout of 120000ms exceeded"],
      [kind |-> "other", status |-> 0, error |-> "",
       statusText |-> "", details |-> "", message |-> "Network Error"] }

\* displayError with the request branch tested first
DisplayErrorRequestFirst(error) ==
    IF error.kind \in {"request", "response"} THEN MsgNoResponse
    ELSE "Forecasting failed: " \o error.message

\* the catch block's displayError
DisplayError(error) ==
    IF error.kind = "response"
    THEN "Forecasting failed: " \o ToText(IntToStr(error.status)) \o " - "
         \o (IF error.error # "" THEN error.error
             ELSE IF error.statusText # "" THEN error.statusText
             ELSE "Unknown Error")
         \o (IF error.details # "" THEN " Details: " \o error.details ELSE "")
    ELSE IF error.kind = "request" THEN MsgNoResponse
    ELSE "Forecasting failed: " \o error.message

\* handleForecastComplete of App.js
handleForecastComplete(data) == forecastResults' = data

\* The awaited POST resolves with a 2xx response: the rest of the try block,
\* then finally.
ForecastResponse(i, data) ==
    /\ i \in DOMAIN pending
    /\ pending' = RemoveAt(pending, i)
    /\ handleForecastComplete(data)
    /\ isLoadingForecast' = FALSE
    /\ lastEvent' = [type |-> "response", value |-> <<>>]
    /\ UNCHANGED <<results, rendered, uploadVars>>
    /\ UNCHANGED <<columnHeaders, file, selectedColumns, selectedFrequency,
                   forecastPeriods, errorMessage, canRunForecast>>

\* the catch block sending the rejected request again
ForecastFailureRetry(i, error) ==
    /\ i \in DOMAIN pending
    /\ pending' = Append(RemoveAt(pending, i), pending[i])
    /\ errorMessage' = DisplayError(error)
    /\ lastEvent' = [type |-> "failure", value |-> <<>>]
    /\ UNCHANGED <<results, rendered, uploadVars>>
    /\ UNCHANGED <<columnHeaders, file, selectedColumns, selectedFrequency,
                   forecastPeriods, canRunForecast, forecastResults,
                   isLoadingForecast>>

\* the catch block without the finally that resets the loading flag
ForecastFailureNoFinally(i, error) ==
    /\ i \in DOMAIN pending
    /\ pending' = RemoveAt(pending, i)
    /\ errorMessage' = DisplayError(error)
    /\ lastEvent' = [type |-> "failure", value |-> <<>>]
    /\ UNCHANGED <<results, rendered, uploadVars>>
    /\ UNCHANGED <<columnHeaders, file, selectedColumns, selectedFrequency,
                   forecastPeriods, canRunForecast, forecastResults,
                   isLoadingForecast>>

\* The awaited POST rejects: the catch block, then finally.
ForecastFailure(i, error) ==
    /\ i \in DOMAIN pending
    /\ pending' = RemoveAt(pending, i)
    /\ errorMessage' = DisplayError(error)
    /\ isLoadingForecast' = FALSE
    /\ lastEvent' = [type |-> "failure", value |-> <<>>]
    /\ UNCHANGED <<results, rendered, uploadVars>>
    /\ UNCHANGED <<columnHeaders, file, selectedColumns, selectedFrequency,
                   forecastPeriods, canRunForecast, forecastResults>>

-----------------------------------------------------------------------------
(* ForecastResults.js: the values of a response *)

\* forecast sequences and the historical sequence have at most this many points
MaxPoints == 2

\* A JSON value is a record with its JavaScript type. A name is a sequence of
\* one-character strings, so that sort() compares names as JavaScript does.
ARIMA == <<"A", "R", "I", "M", "A">>
ETS == <<"E", "T", "S">>
SMA == <<"S", "M", "A">>

\* the models the component has colours for
ModelNames == <<ARIMA, ETS, SMA>>

\* bestMethod absent from the response
NoBestMethod == <<>>

DateOf(k) == "2024-01-0" \o ToText(NatToStr(k))

\* the k-th record of historicalData: {Date, Value}
HistoricalRecord(k) == [Date |-> DateOf(k), Value |-> 50 + k]

\* the place of a model in ModelNames
ModelIndex(name) == CHOOSE i \in DOMAIN ModelNames : ModelNames[i] = name

\* the k-th point of the forecast_data of a model: {Date, ForecastValue,
\* LowerBound, UpperBound}; each model forecasts values of its own
ForecastPoint(name, k) ==
    [Date |-> DateOf(MaxPoints + k), ForecastValue |-> 100 * ModelIndex(name) + k,
     LowerBound |-> 100 * ModelIndex(name) + k - 10,
     UpperBound |-> 100 * ModelIndex(name) + k + 10]

Undefined == [type |-> "undefined", items |-> <<>>]
AString == [type |-> "string", items |-> <<>>]
ArrayOf(items) == [type |-> "array", items |-> items]

HistoricalArray(n) == ArrayOf([k \in 1..n |-> HistoricalRecord(k)])
ForecastArray(name, n) == ArrayOf([k \in 1..n |-> ForecastPoint(name, k)])

NoRmse == [type |-> "undefined", text |-> "", n |-> 0]
RmseNotAvailable == [type |-> "string", text |-> "N/A", n |-> 0]
RmseNumber(n) == [type |-> "number", text |-> "", n |-> n]

\* an entry of modelResults: an object with forecast_data, error ("" when it
\* has none) and evaluation_rmse, or null, or (a missing key) undefined
ModelObject(forecast_data, error, evaluation_rmse) ==
    [type |-> "object", forecast_data |-> forecast_data, error |-> error,
     evaluation_rmse |-> evaluation_rmse]
ModelNull == [type |-> "null", forecast_data |-> Undefined, error |-> "",
              evaluation_rmse |-> NoRmse]
ModelUndefined == [type |-> "undefined", forecast_data |-> Undefined, error |-> "",
                   evaluation_rmse |-> NoRmse]

\* the entries a model can have in a response
ModelEntries(name) ==
    {ModelNull,
     ModelObject(Undefined, "model failed", NoRmse),
     ModelObject(ForecastArray(name, 1), "model failed", RmseNumber(7)),
     ModelObject(AString, "", RmseNumber(7)),
     ModelObject(Undefined, "", RmseNumber(7)),
     ModelObject(ForecastArray(name, 0), "", RmseNumber(7)),
     ModelObject(ForecastArray(name, 1), "", NoRmse)}
    \cup {ModelObject(ForecastArray(name, n), "", RmseNumber(7)) : n \in 1..MaxPoints}
    \cup {ModelObject(ForecastArray(name, n), "", RmseNotAvailable) : n \in 1..MaxPoints}

\* the members an object can have for the given keys: an entry for each
\* model, in key order
RECURSIVE EntriesOf(_)
EntriesOf(order) ==
    IF order = <<>> THEN {<<>>}
    ELSE {<<[name |-> Head(order), data |-> data]>> \o rest :
             data \in ModelEntries(Head(order)), rest \in EntriesOf(Tail(order))}

\* the orders in which a response can list models: its keys are distinct
KeyOrders ==
    {order \in UNION {[1..n -> Range(ModelNames)] : n \in 0..Len(ModelNames)} :
        \A i, j \in DOMAIN order : order[i] = order[j] => i = j}

\* modelResults as an object: its members in key order
ModelResultsObjects(orders) ==
    UNION {{[type |-> "object", entries |-> entries] : entries \in EntriesOf(order)} :
              order \in orders}

\* modelResults that is no object: absent, a string, or an (empty) array
ModelResultsOthers ==
    {[type |-> t, entries |-> <<>>] : t \in {"undefined", "string", "array"}}

\* a well-formed modelResults for the responses whose other fields are not
SampleModelResults ==
    [type |-> "object",
     entries |-> <<[name |-> ETS,
                    data |-> ModelObject(ForecastArray(ETS, 1), "", RmseNumber(7))]>>]

Response(historicalData, modelResults, bestMethod) ==
    [type |-> "object", historicalData |-> historicalData,
     modelResults |-> modelResults, bestMethod |-> bestMethod]

NullResponse ==
    [type |-> "null", historicalData |-> Undefined,
     modelResults |-> [type |-> "undefined", entries |-> <<>>],
     bestMethod |-> NoBestMethod]

\* the responses ForecastResults is given
Responses(orders) ==
    {NullResponse}
    \cup {Response(h, m, b) :
            h \in {HistoricalArray(0), HistoricalArray(MaxPoints)},
            m \in ModelResultsObjects(orders),
            b \in Range(ModelNames) \cup {NoBestMethod}}
    \cup {Response(h, m, ETS) :
            h \in {Undefined, AString, HistoricalArray(0), HistoricalArray(MaxPoints)},
            m \in ModelResultsOthers \cup {SampleModelResults}}

\* no response yet
NoResults == NullResponse

-----------------------------------------------------------------------------
(* ForecastResults.js: the component *)

Alphabet ==
    <<"A", "B", "C", "D", "E", "F", "G", "H", "I", "J", "K", "L", "M",
      "N", "O", "P", "Q", "R", "S", "T", "U", "V", "W", "X", "Y", "Z">>

\* the UTF-16 code unit of a capital letter
CharCode(c) == 64 + CHOOSE i \in DOMAIN Alphabet : Alphabet[i] = c

\* a < b as JavaScript compares strings
RECURSIVE LexLess(_, _)
LexLess(a, b) ==
    IF a = <<>> THEN b # <<>>
    ELSE IF b = <<>> THEN FALSE
    ELSE IF CharCode(Head(a)) # CharCode(Head(b))
    THEN CharCode(Head(a)) < CharCode(Head(b))
    ELSE LexLess(Tail(a), Tail(b))

RECURSIVE Insert(_, _)
Insert(name, sorted) ==
    IF sorted = <<>> THEN <<name>>
    ELSE IF LexLess(name, Head(sorted)) THEN <<name>> \o sorted
    ELSE <<Head(sorted)>> \o Insert(name, Tail(sorted))

\* Array.prototype.sort() without a comparator
RECURSIVE Sort(_)
Sort(names) ==
    IF names = <<>> THEN <<>> ELSE Insert(Head(names), Sort(Tail(names)))

\* Object.keys(modelResults)
ObjectKeys(modelResults) ==
    [i \in DOMAIN modelResults.entries |-> modelResults.entries[i].name]

\* the model names in the order of the response
KeysUnsorted(modelResults) == ObjectKeys(modelResults)

sortedModelNames(modelResults) == Sort(ObjectKeys(modelResults))

\* modelResults[name]
Member(modelResults, name) ==
    IF \E i \in DOMAIN modelResults.entries : modelResults.entries[i].name = name
    THEN LET i == CHOOSE j \in DOMAIN modelResults.entries :
                      modelResults.entries[j].name = name
         IN  modelResults.entries[i].data
    ELSE ModelUndefined

\* typeof
TypeOf(v) == IF v.type \in {"object", "array", "null"} THEN "object" ELSE v.type

IsArray(v) == v.type = "array"

\* !v, for the values of the model (its strings are not empty)
Not(v) == v.type \in {"undefined", "null"}

\* the check that answers with the error indicator
InvalidStructure(r) ==
    \/ Not(r)
    \/ Not(r.historicalData)
    \/ ~IsArray(r.historicalData)
    \/ Not(r.modelResults)
    \/ TypeOf(r.modelResults) # "object"

\* 1. the historical dataset
HistoricalDatasets(historicalData) ==
    IF Len(historicalData.items) > 0
    THEN <<[label |-> "Historical Data",
            data |-> [i \in DOMAIN historicalData.items |->
                         [x |-> historicalData.items[i].Date,
                          y |-> historicalData.items[i].Value]],
            borderWidth |-> 2, pointRadius |-> 3, dashed |-> FALSE,
            fill |-> "false"]>>
    ELSE <<>>

\* the skip test of the loop
SkipModel(modelData) ==
    \/ Not(modelData)
    \/ ~IsArray(modelData.forecast_data)
    \/ modelData.error # ""

\* the forecast line of a model
ForecastDataset(methodName, forecastPoints, isBestMethod) ==
    [label |-> ToText(methodName) \o " Forecast"
                  \o (IF isBestMethod THEN " (Best)" ELSE ""),
     data |-> [i \in DOMAIN forecastPoints |->
                  [x |-> forecastPoints[i].Date, y |-> forecastPoints[i].ForecastValue]],
     borderWidth |-> IF isBestMethod THEN 3 ELSE 2,
     pointRadius |-> IF isBestMethod THEN 4 ELSE 2,
     dashed |-> FALSE,
     fill |-> "false"]

\* the two confidence-interval lines of a model
BandDatasets(methodName, forecastPoints) ==
    <<[label |-> ToText(methodName) \o " Lower Bound (95% CI)",
       data |-> [i \in DOMAIN forecastPoints |->
                    [x |-> forecastPoints[i].Date, y |-> forecastPoints[i].LowerBound]],
       borderWidth |-> 1, pointRadius |-> 0, dashed |-> TRUE, fill |-> "+1"],
      [label |-> ToText(methodName) \o " Upper Bound (95% CI)",
       data |-> [i \in DOMAIN forecastPoints |->
                    [x |-> forecastPoints[i].Date, y |-> forecastPoints[i].UpperBound]],
       borderWidth |-> 1, pointRadius |-> 0, dashed |-> TRUE, fill |-> "-1"]>>

\* the lines of a model with the forecast line between its two bounds
ModelDatasetsBandAround(methodName, modelData, bestMethod) ==
    IF SkipModel(modelData) \/ Len(modelData.forecast_data.items) = 0 THEN <<>>
    ELSE LET forecastPoints == modelData.forecast_data.items
             band == BandDatasets(methodName, forecastPoints)
             line == ForecastDataset(methodName, forecastPoints,
                                     methodName = bestMethod)
         IN  IF methodName = bestMethod THEN <<band[1], line, band[2]>> ELSE <<line>>

\* the lines of a model with bounds for every model
ModelDatasetsAllBands(methodName, modelData, bestMethod) ==
    IF SkipModel(modelData) \/ Len(modelData.forecast_data.items) = 0 THEN <<>>
    ELSE LET forecastPoints == modelData.forecast_data.items
         IN  <<ForecastDataset(methodName, forecastPoints, methodName = bestMethod)>>
             \o BandDatasets(methodName, forecastPoints)

\* the body of the forEach over the sorted model names
ModelDatasets(methodName, modelData, bestMethod) ==
    IF SkipModel(modelData) THEN <<>>
    ELSE LET forecastPoints == modelData.forecast_data.items
             lowerBounds == [i \in DOMAIN forecastPoints |-> forecastPoints[i].LowerBound]
             upperBound == [i \in DOMAIN forecastPoints |-> forecastPoints[i].UpperBound]
             isBestMethod == methodName = bestMethod
         IN  IF Len(forecastPoints) > 0
             THEN <<ForecastDataset(methodName, forecastPoints, isBestMethod)>>
                  \o (IF /\ isBestMethod
                         /\ Len(lowerBounds) = Len(forecastPoints)
                         /\ Len(upperBound) = Len(forecastPoints)
                      THEN BandDatasets(methodName, forecastPoints)
                      ELSE <<>>)
             ELSE <<>>

RECURSIVE ForEachModel(_, _, _)
ForEachModel(names, modelResults, bestMethod) ==
    IF names = <<>> THEN <<>>
    ELSE ModelDatasets(Head(names), Member(modelResults, Head(names)), bestMethod)
         \o ForEachModel(Tail(names), modelResults, bestMethod)

\* chartData.datasets
Datasets(r) ==
    HistoricalDatasets(r.historicalData)
    \o ForEachModel(sortedModelNames(r.modelResults), r.modelResults, r.bestMethod)

\* toFixed(2) of the whole numbers of the model
ToFixed2(n) == ToText(IntToStr(n)) \o ".00"

\* an <li> of the evaluation list; evalRMSE.toFixed raises a TypeError when
\* evalRMSE is undefined
EvaluationItem(methodName, modelData) ==
    IF modelData.error # ""
    THEN [threw |-> FALSE, name |-> methodName, text |-> "Error: " \o modelData.error]
    ELSE IF modelData.evaluation_rmse = RmseNotAvailable
    THEN [threw |-> FALSE, name |-> methodName, text |-> "N/A (Evaluation Skipped)"]
    ELSE IF modelData.evaluation_rmse.type = "number"
    THEN [threw |-> FALSE, name |-> methodName,
          text |-> ToFixed2(modelData.evaluation_rmse.n)]
    ELSE [threw |-> TRUE, name |-> methodName, text |-> ""]

EvaluationList(r) ==
    LET names == sortedModelNames(r.modelResults)
    IN  [i \in DOMAIN names |-> EvaluationItem(names[i], Member(r.modelResults, names[i]))]

\* modelResults[bestMethod]?.forecast_data || []
bestMethodData(r) ==
    LET forecast_data == Member(r.modelResults, r.bestMethod).forecast_data
    IN  IF Not(forecast_data) THEN ArrayOf(<<>>) ELSE forecast_data

\* the rows of the table; a forecast_data that is a string has a length but
\* no map: a TypeError
TableThrows(r) == bestMethodData(r).type = "string"

TableRows(r) ==
    LET items == bestMethodData(r).items
    IN  [i \in DOMAIN items |->
            [Date |-> items[i].Date,
             ForecastValue |-> ToFixed2(items[i].ForecastValue),
             LowerBound |-> ToFixed2(items[i].LowerBound),
             UpperBound |-> ToFixed2(items[i].UpperBound)]]

\* the paragraph shown when the table has no rows
BestMethodMessage(r) ==
    IF Len(bestMethodData(r).items) # 0 THEN ""
    ELSE IF Member(r.modelResults, r.bestMethod).error # ""
    THEN "Could not display forecast data for the best method ("
         \o ToText(r.bestMethod) \o ") due to an error: "
         \o Member(r.modelResults, r.bestMethod).error
    ELSE "No forecast data available for the best method ("
         \o ToText(r.bestMethod) \o ")."

\* nothing rendered yet
NotRendered ==
    [kind |-> "none", datasets |-> <<>>, evaluation |-> <<>>, rows |-> <<>>,
     message |-> ""]

\* What ForecastResults returns: the error indicator, the view (chart
\* datasets, evaluation list, table rows, message), or nothing because the
\* render raised an exception.
ForecastResults(r) ==
    IF InvalidStructure(r)
    THEN [NotRendered EXCEPT !.kind = "error"]
    ELSE IF (\E i \in DOMAIN EvaluationList(r) : EvaluationList(r)[i].threw)
            \/ TableThrows(r)
    THEN [NotRendered EXCEPT !.kind = "threw"]
    ELSE [kind |-> "view", datasets |-> Datasets(r), evaluation |-> EvaluationList(r),
          rows |-> TableRows(r), message |-> BestMethodMessage(r)]

-----------------------------------------------------------------------------
(* App.js: what an upload leaves behind *)

\* the body of a successful /upload response, and an empty (null) body
UploadData(headers) == [type |-> "object", column_headers |-> headers]
NullData == [type |-> "null", column_headers |-> <<>>]

\* a response body counts as true unless it is null
TruthyData(data) == data.type = "object"

\* App once the upload has given it the headers and the file that
\* ColumnSelector receives as its props
AfterUpload ==
    /\ uploadInfo = UploadData(columnHeaders)
    /\ uploadedFile = file
    /\ selectedFile = NoFile
    /\ message = ""
    /\ isLoading = FALSE
    /\ uploading = <<>>

-----------------------------------------------------------------------------
(* The column-selection stage from its mount on *)

Init ==
    /\ columnHeaders \in {SubSeq(SampleHeaders, 1, k) : k \in 0..MaxHeaders}
    /\ file \in {NoFile, TheFile}
    /\ selectedColumns = InitialColumns
    /\ selectedFrequency = InitialFrequency
    /\ forecastPeriods = InitialPeriods
    /\ LET v == ValidationEffect(InitialColumns, InitialFrequency, InitialPeriods,
                                 columnHeaders)
       IN  /\ errorMessage = v.errorMessage
           /\ canRunForecast = v.canRunForecast
    /\ isLoadingForecast = FALSE
    /\ pending = <<>>
    /\ forecastResults = "null"
    /\ results = NoResults
    /\ rendered = NotRendered
    /\ AfterUpload
    /\ lastEvent = [type |-> "mount", value |-> <<>>]

Next ==
    \/ \E t \in Roles, c \in Range(columnHeaders) : handleSelectChange(t, c)
    \/ \E f \in Frequencies : handleFrequencyChange(f)
    \/ \E v \in PeriodInputs : handlePeriodsChange(v)
    \/ handleRunForecast
    \/ \E i \in 1..MaxPending, d \in ResponseBodies : ForecastResponse(i, d)
    \/ \E i \in 1..MaxPending, e \in Errors : ForecastFailure(i, e)

Spec == Init /\ [][Next]_vars

\* An issued request comes to its end: axios resolves the promise with a
\* response, or rejects it with a failure status, without response after the
\* timeout, or with another error.
Settle ==
    \E i \in 1..MaxPending :
        \/ \E d \in ResponseBodies : ForecastResponse(i, d)
        \/ \E e \in Errors : ForecastFailure(i, e)

\* the inputs of the runs with fairness: an empty horizon field and a valid
\* one, the frequency shown at mount and one other
LivePeriodInputs == {<<>>, <<"2">>}
LiveFrequencies == {InitialFrequency, "Monthly"}

\* the stage mounted for a file with MaxHeaders columns
InitLive == Init /\ columnHeaders = SubSeq(SampleHeaders, 1, MaxHeaders)

NextLive ==
    \/ \E t \in Roles, c \in Range(columnHeaders) : handleSelectChange(t, c)
    \/ \E f \in LiveFrequencies : handleFrequencyChange(f)
    \/ \E v \in LivePeriodInputs : handlePeriodsChange(v)
    \/ handleRunForecast
    \/ Settle

\* The column-selection stage when every issued request comes to its end
SpecLive == InitLive /\ [][NextLive]_vars /\ WF_vars(Settle)

-----------------------------------------------------------------------------
(* The validation effect alone, on every combination of its inputs *)

StoredPeriods == {PeriodsValue(v) : v \in PeriodInputs} \cup {InitialPeriods}

InitValidate ==
    /\ columnHeaders \in {SubSeq(SampleHeaders, 1, k) : k \in 0..Len(SampleHeaders)}
    /\ file = TheFile
    /\ selectedColumns \in [Roles -> ColumnUniverse \cup {""}]
    /\ selectedFrequency \in Frequencies
    /\ forecastPeriods \in StoredPeriods
    /\ errorMessage \in {"", MsgSameColumns}
    /\ canRunForecast \in BOOLEAN
    /\ isLoadingForecast \in BOOLEAN
    /\ pending = <<>>
    /\ forecastResults = "null"
    /\ results = NoResults
    /\ rendered = NotRendered
    /\ AfterUpload
    /\ lastEvent = [type |-> "render", value |-> <<>>]

\* the effect also resetting the loading flag
RunValidationEffectClearsLoading ==
    /\ lastEvent.type \in {"render", "effect"}
    /\ LET v == ValidationEffect(selectedColumns, selectedFrequency, forecastPeriods,
                                 columnHeaders)
       IN  /\ errorMessage' = v.errorMessage
           /\ canRunForecast' = v.canRunForecast
    /\ isLoadingForecast' = FALSE
    /\ lastEvent' = [type |-> IF lastEvent.type = "render" THEN "effect" ELSE "effect2",
                      value |-> <<>>]
    /\ UNCHANGED <<results, rendered, uploadVars>>
    /\ UNCHANGED <<columnHeaders, file, selectedColumns, selectedFrequency,
                   forecastPeriods, pending, forecastResults>>

\* The effect runs on the rendered state; React may run it again on the
\* same inputs (a re-render, StrictMode's double invocation).
RunValidationEffect ==
    /\ lastEvent.type \in {"render", "effect"}
    /\ LET v == ValidationEffect(selectedColumns, selectedFrequency, forecastPeriods,
                                 columnHeaders)
       IN  /\ errorMessage' = v.errorMessage
           /\ canRunForecast' = v.canRunForecast
    /\ lastEvent' = [type |-> IF lastEvent.type = "render" THEN "effect" ELSE "effect2",
                      value |-> <<>>]
    /\ UNCHANGED <<results, rendered, uploadVars>>
    /\ UNCHANGED <<columnHeaders, file, selectedColumns, selectedFrequency,
                   forecastPeriods, isLoadingForecast, pending, forecastResults>>

NextValidate == RunValidationEffect

SpecValidate == InitValidate /\ [][NextValidate]_vars

-----------------------------------------------------------------------------
(* handleRunForecast called on every state of the component *)

\* an exception without a message, next to the rejections of Errors
EmptyError ==
    [kind |-> "other", status |-> 0, error |-> "",
     statusText |-> "", details |-> "", message |-> ""]

InitSubmit ==
    /\ columnHeaders \in {SubSeq(SampleHeaders, 1, k) : k \in 0..MaxHeaders}
    /\ file \in {NoFile, TheFile}
    /\ selectedColumns \in [Roles -> Range(columnHeaders) \cup {""}]
    /\ selectedFrequency \in Frequencies
    /\ forecastPeriods \in StoredPeriods
    /\ errorMessage \in {"", MsgSameColumns}
    /\ canRunForecast \in BOOLEAN
    /\ isLoadingForecast \in BOOLEAN
    /\ pending = <<>>
    /\ forecastResults = "null"
    /\ results = NoResults
    /\ rendered = NotRendered
    /\ AfterUpload
    /\ lastEvent = [type |-> "render", value |-> <<>>]

\* handleRunForecast called directly, whatever the button shows
InvokeRunForecast ==
    /\ Mounted
    /\ Len(pending) < MaxPending
    /\ handleRunForecastCall

NextSubmit ==
    \/ InvokeRunForecast
    \/ \E i \in 1..MaxPending, d \in ResponseBodies : ForecastResponse(i, d)
    \/ \E i \in 1..MaxPending, e \in Errors \cup {EmptyError} : ForecastFailure(i, e)

SpecSubmit == InitSubmit /\ [][NextSubmit]_vars

-----------------------------------------------------------------------------
(* ForecastResults rendering every response *)

InitResults ==
    /\ columnHeaders = <<>>
    /\ file = NoFile
    /\ selectedColumns = InitialColumns
    /\ selectedFrequency = InitialFrequency
    /\ forecastPeriods = InitialPeriods
    /\ errorMessage = ""
    /\ canRunForecast = FALSE
    /\ isLoadingForecast = FALSE
    /\ pending = <<>>
    /\ forecastResults = "forecast"
    /\ results \in Responses(KeyOrders)
    /\ rendered = NotRendered
    /\ AfterUpload
    /\ lastEvent = [type |-> "props", value |-> <<>>]

\* the render that pushes onto the datasets of the render before
RenderForecastResultsAppending ==
    /\ lastEvent.type = "props"
    /\ rendered' = [ForecastResults(results) EXCEPT !.datasets = rendered.datasets \o @]
    /\ lastEvent' = [type |-> "rendered", value |-> lastEvent.value]
    /\ UNCHANGED <<columnHeaders, file, selectedColumns, selectedFrequency,
                   forecastPeriods, errorMessage, canRunForecast, isLoadingForecast,
                   pending, forecastResults, results, uploadVars>>

\* React calls ForecastResults with the response as its results prop.
RenderForecastResults ==
    /\ lastEvent.type = "props"
    /\ rendered' = ForecastResults(results)
    /\ lastEvent' = [type |-> "rendered", value |-> lastEvent.value]
    /\ UNCHANGED <<columnHeaders, file, selectedColumns, selectedFrequency,
                   forecastPeriods, errorMessage, canRunForecast, isLoadingForecast,
                   pending, forecastResults, results, uploadVars>>

NextResults == RenderForecastResults

SpecResults == InitResults /\ [][NextResults]_vars

-----------------------------------------------------------------------------
(* ForecastResults rendering one response after another *)

\* the responses that follow one another: those with at most one model,
\* ARIMA or ETS, and one of the two as bestMethod
SuccessiveResponses ==
    {r \in Responses({<<>>, <<ARIMA>>, <<ETS>>}) :
        r.bestMethod \in {ARIMA, ETS, NoBestMethod}}

InitRerender ==
    /\ columnHeaders = <<>>
    /\ file = NoFile
    /\ selectedColumns = InitialColumns
    /\ selectedFrequency = InitialFrequency
    /\ forecastPeriods = InitialPeriods
    /\ errorMessage = ""
    /\ canRunForecast = FALSE
    /\ isLoadingForecast = FALSE
    /\ pending = <<>>
    /\ forecastResults = "forecast"
    /\ results \in SuccessiveResponses
    /\ rendered = NotRendered
    /\ AfterUpload
    /\ lastEvent = [type |-> "props", value |-> <<>>]

\* The parent passes another response as the results prop of the mounted
\* component; the event records the response it replaces. After a render
\* that raised an exception the component is no longer mounted.
NewResults(r) ==
    /\ lastEvent.type = "rendered"
    /\ rendered.kind # "threw"
    /\ results' = r
    /\ lastEvent' = [type |-> "props", value |-> <<results>>]
    /\ UNCHANGED <<columnHeaders, file, selectedColumns, selectedFrequency,
                   forecastPeriods, errorMessage, canRunForecast, isLoadingForecast,
                   pending, forecastResults, rendered, uploadVars>>

NextRerender ==
    \/ RenderForecastResults
    \/ \E r \in SuccessiveResponses : NewResults(r)

SpecRerender == InitRerender /\ [][NextRerender]_vars

-----------------------------------------------------------------------------
(* The stage App shows *)

\* {forecastResults && ( ... )}: the results stage
ResultsShown == Truthy(forecastResults)

\* {!uploadInfo && !uploadedFile && ( <FileUpload .../> )}: the upload stage
FileUploadShown == ~TruthyData(uploadInfo) /\ ~Truthy(uploadedFile)

\* {uploadInfo && uploadedFile && !forecastResults && ( <ColumnSelector .../> )}
ColumnSelectorShown ==
    TruthyData(uploadInfo) /\ Truthy(uploadedFile) /\ ~Truthy(forecastResults)

-----------------------------------------------------------------------------
(* FileUpload.js and App.js: the wizard from its first render on *)

\* what the file input can report: no file (undefined, as is an argument
\* left out of a call), CSV files, a file of another type
NoChoice == "undefined"
CsvFiles == {TheFile, "more.csv", "sales.csv", "stock.csv"}
ChosenFiles == {NoChoice, "notes.txt"} \cup CsvFiles

\* file.name.endsWith('.csv')
EndsWithCsv(name) == name \in CsvFiles

MsgInvalidCsv == "Please select a valid CSV file."
MsgSelectFirst == "Please select a file first!"
MsgUploading == "Uploading..."
MsgUploadOk == "Upload successful!"
MsgUploadNoResponse == "Upload failed: No response from server. Is the backend running?"

\* the header rows a file can have: up to MaxHeaders distinct column names
HeaderRows ==
    UNION {{row \in [1..k -> ColumnUniverse] :
               \A i, j \in 1..k : row[i] = row[j] => i = j} : k \in 0..MaxHeaders}

\* bodies of a 2xx /upload response
UploadBodies == {UploadData(row) : row \in HeaderRows} \cup {NullData}

handleFileChange(chosen) ==
    /\ FileUploadShown
    /\ IF Truthy(chosen) /\ EndsWithCsv(chosen)
       THEN /\ selectedFile' = chosen
            /\ message' = ""
       ELSE /\ selectedFile' = NoFile
            /\ message' = MsgInvalidCsv
    /\ lastEvent' = [type |-> "file", value |-> <<>>]
    /\ UNCHANGED <<uploadInfo, uploadedFile, isLoading, uploading>>
    /\ UNCHANGED <<columnHeaders, file, selectedColumns, selectedFrequency,
                   forecastPeriods, errorMessage, canRunForecast, isLoadingForecast,
                   pending, forecastResults, results, rendered>>

\* disabled={!selectedFile || isLoading || ...}: the URL is not the placeholder
UploadEnabled == Truthy(selectedFile) /\ ~isLoading

\* A click on the Upload button: the FormData with the chosen file is sent.
handleUpload ==
    /\ FileUploadShown
    /\ UploadEnabled
    /\ IF ~Truthy(selectedFile)
       THEN /\ message' = MsgSelectFirst
            /\ UNCHANGED <<isLoading, uploading>>
       ELSE /\ uploading' = Append(uploading, selectedFile)
            /\ isLoading' = TRUE
            /\ message' = MsgUploading
    /\ lastEvent' = [type |-> "upload", value |-> <<>>]
    /\ UNCHANGED <<uploadInfo, uploadedFile, selectedFile>>
    /\ UNCHANGED <<columnHeaders, file, selectedColumns, selectedFrequency,
                   forecastPeriods, errorMessage, canRunForecast, isLoadingForecast,
                   pending, forecastResults, results, rendered>>

\* App.handleFileUploadSuccess(data, file); App's own selectedColumns is set
\* to null, which it already is, and is read nowhere
handleFileUploadSuccess(data, givenFile) ==
    /\ uploadInfo' = data
    /\ uploadedFile' = givenFile
    /\ forecastResults' = "null"

\* The /upload request resolves with a 2xx response: the success message,
\* onFileUploadSuccess(response.data) with no second argument, then finally.
UploadResponse(data) ==
    /\ uploading # <<>>
    /\ uploading' = Tail(uploading)
    /\ message' = MsgUploadOk
    /\ handleFileUploadSuccess(data, NoChoice)
    /\ isLoading' = FALSE
    /\ lastEvent' = [type |-> "uploaded", value |-> <<>>]
    /\ UNCHANGED selectedFile
    /\ UNCHANGED <<columnHeaders, file, selectedColumns, selectedFrequency,
                   forecastPeriods, errorMessage, canRunForecast, isLoadingForecast,
                   pending, results, rendered>>

UploadError(error) ==
    IF error.kind = "response"
    THEN "Upload failed: " \o ToText(IntToStr(error.status)) \o " - "
         \o (IF error.error # "" THEN error.error
             ELSE IF error.statusText # "" THEN error.statusText
             ELSE "Unknown Error")
    ELSE IF error.kind = "request" THEN MsgUploadNoResponse
    ELSE "Upload failed: " \o error.message

\* The /upload request is rejected: the catch block, then finally.
UploadFailure(error) ==
    /\ uploading # <<>>
    /\ uploading' = Tail(uploading)
    /\ message' = UploadError(error)
    /\ isLoading' = FALSE
    /\ lastEvent' = [type |-> "upload failed", value |-> <<>>]
    /\ UNCHANGED <<uploadInfo, uploadedFile, selectedFile>>
    /\ UNCHANGED <<columnHeaders, file, selectedColumns, selectedFrequency,
                   forecastPeriods, errorMessage, canRunForecast, isLoadingForecast,
                   pending, forecastResults, results, rendered>>

\* App's first render: nothing uploaded, nothing chosen
InitWizard ==
    /\ columnHeaders = <<>>
    /\ file = NoFile
    /\ selectedColumns = InitialColumns
    /\ selectedFrequency = InitialFrequency
    /\ forecastPeriods = InitialPeriods
    /\ errorMessage = ""
    /\ canRunForecast = FALSE
    /\ isLoadingForecast = FALSE
    /\ pending = <<>>
    /\ forecastResults = "null"
    /\ results = NoResults
    /\ rendered = NotRendered
    /\ uploadInfo = NullData
    /\ uploadedFile = NoFile
    /\ selectedFile = NoFile
    /\ message = ""
    /\ isLoading = FALSE
    /\ uploading = <<>>
    /\ lastEvent = [type |-> "mount", value |-> <<>>]

NextWizard ==
    \/ \E chosen \in ChosenFiles : handleFileChange(chosen)
    \/ handleUpload
    \/ \E data \in UploadBodies : UploadResponse(data)
    \/ \E e \in Errors \cup {EmptyError} : UploadFailure(e)

SpecWizard == InitWizard /\ [][NextWizard]_vars

-----------------------------------------------------------------------------
(* The rules of the validator, stated on their own *)

HorizonOk(periods) == periods.isInt /\ periods.n >= 1

BothSelected(cols) == cols["Date Column"] # "" /\ cols["Value Column"] # ""

Distinct(cols) == cols["Date Column"] # cols["Value Column"]

AllKnown(cols, headers) ==
    \A r \in Roles : cols[r] = "" \/ \E i \in DOMAIN headers : headers[i] = cols[r]

RulesAccept(cols, periods, headers) ==
    HorizonOk(periods) /\ BothSelected(cols) /\ Distinct(cols) /\ AllKnown(cols, headers)

-----------------------------------------------------------------------------
(* Claims *)

\* C1: in every reachable state at most one POST /forecast is outstanding;
\* a click that arrives while a request is unresolved issues no second one.
C1_AtMostOneOutstanding == Len(pending) <= 1

\* C1 witness: a request is in flight while the selections are still valid, so
\* that only the loading flag keeps the button from issuing another.
C1_Witness ==
    /\ Len(pending) = 1
    /\ isLoadingForecast
    /\ canRunForecast
    /\ Mounted
    /\ lastEvent.type = "run"

\* C2: a run-forecast event issues a request only if the validation rules
\* accept the current mapping and horizon and the file is present.
C2_NoCallWhenInvalidOrNoFile ==
    [][Len(pending') > Len(pending) =>
          /\ RulesAccept(selectedColumns, forecastPeriods, columnHeaders)
          /\ selectedFrequency \in Frequencies
          /\ file # NoFile]_vars

\* C2 witness: the button was clicked with valid selections but no file, after
\* input changes, and no request went out.
C2_Witness ==
    /\ lastEvent.type = "run"
    /\ file = NoFile
    /\ pending = <<>>
    /\ errorMessage = MsgMissingFile
    /\ ~isLoadingForecast
    /\ RulesAccept(selectedColumns, forecastPeriods, columnHeaders)

\* the validation effect has run on the state shown
EffectRan == lastEvent.type \in {"effect", "effect2"}

\* the message of the first failing rule, in the order 1, 2, 3, 4
FirstFailingMessage(cols, periods, headers) ==
    IF ~HorizonOk(periods) THEN MsgPositiveInteger
    ELSE IF ~BothSelected(cols) THEN ""
    ELSE IF ~Distinct(cols) THEN MsgSameColumns
    ELSE IF ~AllKnown(cols, headers) THEN MsgNotInData
    ELSE ""

\* C3: the message the validation effect leaves is the message of the first
\* failing rule in the order horizon, empty Date/Value, Date = Value, unknown
\* column; a later failing rule never overrides an earlier one.
C3_FirstFailingRuleMessage ==
    EffectRan =>
        errorMessage = FirstFailingMessage(selectedColumns, forecastPeriods, columnHeaders)

\* C4 as stated: Date = Value (non-empty) gives invalid with the 'cannot be
\* the same' message whatever the other fields are.
C4_SameColumnsMessageAlways ==
    (EffectRan /\ BothSelected(selectedColumns) /\ ~Distinct(selectedColumns)) =>
        /\ ~canRunForecast
        /\ errorMessage = MsgSameColumns

\* C4 amended: Date = Value (non-empty) always gives invalid; the message is
\* the 'not in the original data' one when a selected column is unknown, else
\* the positive-integer one when the horizon is not an integer >= 1, else the
\* 'cannot be the same' one.
C4_SameColumnsInvalid ==
    (EffectRan /\ BothSelected(selectedColumns) /\ ~Distinct(selectedColumns)) =>
        /\ ~canRunForecast
        /\ errorMessage =
              IF ~AllKnown(selectedColumns, columnHeaders) THEN MsgNotInData
              ELSE IF ~HorizonOk(forecastPeriods) THEN MsgPositiveInteger
              ELSE MsgSameColumns

\* C4 witness: equal known columns, a good horizon and an aggregation column:
\* the effect left the 'cannot be the same' message.
C4_Witness ==
    /\ EffectRan
    /\ selectedColumns["Date Column"] = "Sales"
    /\ selectedColumns["Value Column"] = "Sales"
    /\ selectedColumns["Aggregation Column (Optional)"] = "Region"
    /\ HorizonOk(forecastPeriods)
    /\ ~canRunForecast
    /\ errorMessage = MsgSameColumns

\* the text is an unsigned decimal numeral of an integer >= 1
DenotesPositiveInteger(text) ==
    /\ text # <<>>
    /\ \A i \in DOMAIN text : IsDigit(text[i])
    /\ DigitsValue(text, 0) >= 1

\* C5: after a periods-field event whose text does not denote an integer >= 1
\* (empty, non-numeric, zero, negative, fractional) the state is invalid.
C5_NonIntegerHorizonInvalid ==
    (lastEvent.type = "periods" /\ ~DenotesPositiveInteger(lastEvent.value)) =>
        ~canRunForecast

\* C6: with a horizon that is an integer >= 1 and every selected column known,
\* an empty Date or Value column gives invalid with an empty message; the
\* inputs of the initial state are such a case.
C6_IncompleteHasNoMessage ==
    (/\ EffectRan \/ lastEvent.type = "mount"
     /\ HorizonOk(forecastPeriods)
     /\ AllKnown(selectedColumns, columnHeaders)
     /\ ~BothSelected(selectedColumns)) =>
        /\ ~canRunForecast
        /\ errorMessage = ""

\* C6 witness: the effect ran on the initial selections (nothing selected,
\* Daily, 12 periods) with two known headers and left no message.
C6_Witness ==
    /\ EffectRan
    /\ selectedColumns = InitialColumns
    /\ selectedFrequency = InitialFrequency
    /\ forecastPeriods = InitialPeriods
    /\ Len(columnHeaders) = 2
    /\ ~canRunForecast
    /\ errorMessage = ""

\* C7: after any sequence of input events canRunForecast is true exactly when
\* the rules accept the current selections.
C7_CanRunIsCurrent ==
    canRunForecast <=> RulesAccept(selectedColumns, forecastPeriods, columnHeaders)

\* C7 witness: a periods event left valid selections, aggregation column
\* included, and canRunForecast true.
C7_Witness ==
    /\ lastEvent.type = "periods"
    /\ canRunForecast
    /\ selectedColumns["Aggregation Column (Optional)"] # ""
    /\ selectedFrequency = "Monthly"
    /\ forecastPeriods = NumberValue(2)

\* C8: after input events, with no submit pending or just failed, the trigger
\* is disabled without a message only when Date or Value is empty.
C8_OnlyIncompleteIsSilent ==
    (/\ Mounted
     /\ lastEvent.type \in {"mount", "change", "periods"}
     /\ pending = <<>>
     /\ ~isLoadingForecast
     /\ ~canRunForecast
     /\ errorMessage = "") =>
        ~BothSelected(selectedColumns)

IsDecimalPositive(text) ==
    /\ DenotesPositiveInteger(text)
    /\ Head(text) # "0"

\* a request with exactly the four fields, obeying the data model
WellFormedRequest(req) ==
    /\ [i \in DOMAIN req |-> req[i][1]] =
           <<"file", "selectedColumns", "selectedFrequency", "forecastPeriods">>
    /\ req[1][2] = file /\ file # NoFile
    /\ LET json == req[2][2]
           cols == [r \in Roles |-> json[CHOOSE i \in DOMAIN json : json[i][1] = r][2]]
       IN  /\ [i \in DOMAIN json |-> json[i][1]] = COLUMN_TYPES
           /\ BothSelected(cols) /\ Distinct(cols) /\ AllKnown(cols, columnHeaders)
    /\ req[3][2] \in Frequencies
    /\ IsDecimalPositive(req[4][2])

\* the request holds the selections shown
CarriesSelections(req) ==
    /\ \A i \in DOMAIN COLUMN_TYPES : req[2][2][i][2] = selectedColumns[COLUMN_TYPES[i]]
    /\ req[3][2] = selectedFrequency
    /\ forecastPeriods.isInt /\ DigitsValue(req[4][2], 0) = forecastPeriods.n

FailedAttempt ==
    \/ lastEvent'.type = "failure"
    \/ lastEvent'.type = "run" /\ pending' = pending

\* C11: a failed forecast attempt (missing file, no response, failure status,
\* exception) leaves the selected columns, frequency and horizon as they were,
\* the loading flag false and the stage mounted, with the button enabled
\* exactly when the rules accept the selections.
C11_FailureKeepsSelections ==
    [][FailedAttempt =>
          /\ UNCHANGED <<selectedColumns, selectedFrequency, forecastPeriods>>
          /\ ~isLoadingForecast'
          /\ Mounted'
          /\ ButtonEnabled' <=>
                 RulesAccept(selectedColumns', forecastPeriods', columnHeaders')]_vars

\* C11 witness: a request was rejected after the user had emptied the horizon
\* while it was in flight: loading is over and the button stays disabled.
C11_Witness ==
    /\ lastEvent.type = "failure"
    /\ ~isLoadingForecast
    /\ Mounted
    /\ BothSelected(selectedColumns)
    /\ forecastPeriods = RawValue(<<>>)
    /\ ~canRunForecast
    /\ errorMessage = MsgNoResponse

\* C12: a request is issued only by a run-forecast event, one per event; the
\* step in which a request fails takes it off the wire and issues none, and
\* no step between a failure and the next run-forecast event issues one.
C12_NoAutomaticRetry ==
    [][/\ Len(pending') > Len(pending) =>
             /\ lastEvent'.type = "run"
             /\ \E req \in {FormData(file, selectedColumns, selectedFrequency,
                                      forecastPeriods)} :
                    pending' = Append(pending, req)
       /\ lastEvent'.type = "failure" =>
             \E i \in DOMAIN pending : pending' = RemoveAt(pending, i)
       /\ lastEvent'.type \notin {"run", "failure", "response"} =>
             pending' = pending]_vars

\* C12 witness: a request failed with a status, nothing is on the wire, and
\* the button is enabled again for the user to run it anew.
C12_Witness ==
    /\ lastEvent.type = "failure"
    /\ pending = <<>>
    /\ ButtonEnabled
    /\ errorMessage =
          "Forecasting failed: 500 - Forecasting error Details: bad column"

\* the message the claim assigns to each kind of rejected request
MessageOfKind(error) ==
    CASE error.kind = "request" -> MsgNoResponse
      [] error.kind = "response" ->
            "Forecasting failed: " \o ToText(IntToStr(error.status)) \o " - "
            \o (IF error.error # "" THEN error.error
                ELSE IF error.statusText # "" THEN error.statusText
                ELSE "Unknown Error")
            \o (IF error.details # "" THEN " Details: " \o error.details ELSE "")
      [] error.kind = "other" -> "Forecasting failed: " \o error.message

\* C13: the kind of failure determines the message of a failed submit: no
\* file gives the 'Original file data is missing' message and no request; a
\* request without response (a timeout included) the 'No response from
\* server' message; a failure status the message made of the status, the
\* backend's error text and the details when present; any other exception
\* its own message. Messages of different kinds differ, so one failed attempt
\* leaves exactly one of them.
C13_FailureKindDeterminesMessage ==
    [][/\ (lastEvent'.type = "run" /\ file = NoFile) =>
             errorMessage' = MsgMissingFile /\ pending' = pending
       /\ lastEvent'.type = "failure" =>
             \A i \in DOMAIN pending, e \in Errors :
                ForecastFailure(i, e) =>
                   /\ errorMessage' = MessageOfKind(e)
                   /\ errorMessage' # MsgMissingFile
                   /\ \A other \in Errors :
                         other.kind # e.kind =>
                            errorMessage' # MessageOfKind(other)]_vars

\* C13 witness: a request was answered with status 400 and an empty body; the
\* message names the status and no details.
C13_Witness ==
    /\ lastEvent.type = "failure"
    /\ errorMessage = "Forecasting failed: 400 - Unknown Error"
    /\ ~isLoadingForecast

\* C14: every submit attempt that does not succeed, whether handleRunForecast
\* refuses it for invalid selections or a missing file, or the request ends
\* without response, with a failure status or in another exception, leaves a
\* non-empty errorMessage.
C14_FailureLeavesMessage ==
    [][FailedAttempt => errorMessage' # ""]_vars

\* C14 witness: handleRunForecast was called with canRunForecast false and
\* left its 'Please complete' message, issuing nothing.
C14_Witness ==
    /\ lastEvent.type = "run"
    /\ ~canRunForecast
    /\ pending = <<>>
    /\ errorMessage = MsgIncomplete

\* C15: on every 2xx response the response data is handed unchanged to
\* onForecastComplete, once, and the wizard then shows the results stage and
\* no longer the column-selection stage.
C15_SuccessShowsResults ==
    [][\A i \in DOMAIN pending, d \in ResponseBodies :
          ForecastResponse(i, d) =>
             /\ forecastResults' = d
             /\ ResultsShown'
             /\ ~Mounted']_vars

\* ForecastResults has rendered the response
Rendered == lastEvent.type = "rendered"

\* C16: a response whose historicalData is missing or not a sequence, or
\* whose modelResults is missing or not a mapping, renders the error
\* indicator only: no chart series, no table rows, no evaluation summary.
C16_MalformedShowsErrorOnly ==
    (/\ Rendered
     /\ results.type = "object"
     /\ \/ results.historicalData.type # "array"
        \/ results.modelResults.type # "object") =>
        /\ rendered.kind = "error"
        /\ rendered.datasets = <<>>
        /\ rendered.rows = <<>>
        /\ rendered.evaluation = <<>>

\* the labels by which the series of a model are told apart
ForecastLabels(name) ==
    {ToText(name) \o " Forecast", ToText(name) \o " Forecast (Best)"}
LowerLabel(name) == ToText(name) \o " Lower Bound (95% CI)"
UpperLabel(name) == ToText(name) \o " Upper Bound (95% CI)"

IsForecastSeries(series, name) == series.label \in ForecastLabels(name)
IsBandSeries(series, name) == series.label \in {LowerLabel(name), UpperLabel(name)}

\* positions of the series list holding a forecast, or a band, series of a model
ForecastSeriesOf(name) ==
    {i \in DOMAIN rendered.datasets : IsForecastSeries(rendered.datasets[i], name)}
BandSeriesOf(name) ==
    {i \in DOMAIN rendered.datasets : IsBandSeries(rendered.datasets[i], name)}

\* the names a response or a label can carry
AnyName == Range(ModelNames) \cup {NoBestMethod}

\* the model has a non-empty forecast sequence and no failure reason
Usable(modelData) ==
    /\ modelData.type = "object"
    /\ modelData.forecast_data.type = "array"
    /\ Len(modelData.forecast_data.items) > 0
    /\ modelData.error = ""

\* ForecastResults returned the view for the response
ViewRendered == Rendered /\ rendered.kind = "view"

\* the response has the shape the transformer asks for: historicalData a
\* sequence and modelResults a mapping
WellShaped(r) ==
    /\ r.type = "object"
    /\ r.historicalData.type = "array"
    /\ r.modelResults.type = "object"

\* ForecastResults was called with a response of that shape
ShapedRendered == Rendered /\ WellShaped(results)

\* The series of the best model in the views that are returned: when the
\* best model has a usable forecast sequence, the series list of the view
\* holds its forecast series, emphasized, immediately followed by its
\* lower-bound and then its upper-bound series; the best model has exactly
\* one forecast series and exactly two band series, and a model with a
\* failure reason has no series.
C17_InViews ==
    (ViewRendered /\ Usable(Member(results.modelResults, results.bestMethod))) =>
        LET ds == rendered.datasets
            best == results.bestMethod
        IN  /\ \E i \in DOMAIN ds :
                  /\ i + 2 <= Len(ds)
                  /\ ds[i].label = ToText(best) \o " Forecast (Best)"
                  /\ \A j \in DOMAIN ds, name \in AnyName \ {best} :
                        IsForecastSeries(ds[j], name) =>
                           /\ ds[i].borderWidth > ds[j].borderWidth
                           /\ ds[i].pointRadius > ds[j].pointRadius
                  /\ ds[i + 1].label = LowerLabel(best)
                  /\ ds[i + 2].label = UpperLabel(best)
            /\ Cardinality(ForecastSeriesOf(best)) = 1
            /\ Cardinality(BandSeriesOf(best)) = 2
            /\ \A k \in DOMAIN results.modelResults.entries :
                  results.modelResults.entries[k].data.error # "" =>
                     /\ ForecastSeriesOf(results.modelResults.entries[k].name) = {}
                     /\ BandSeriesOf(results.modelResults.entries[k].name) = {}

\* C17: for every response of the right shape whose best model has a usable
\* forecast sequence, a series list is produced and it holds the best
\* model's forecast series, emphasized, immediately followed by its
\* lower-bound and then its upper-bound series, one forecast series and two
\* band series for the best model and none for a model with a failure reason.
C17_BestSeriesThenBands ==
    (ShapedRendered /\ Usable(Member(results.modelResults, results.bestMethod))) =>
        /\ ViewRendered
        /\ C17_InViews

\* ARIMA is best and usable, ETS failed, SMA is usable: the view lists the
\* historical series, ARIMA's line and its two bounds, then SMA's.
C25_Witness ==
    /\ ViewRendered
    /\ results.bestMethod = ARIMA
    /\ Member(results.modelResults, ETS).error # ""
    /\ Len(rendered.datasets) = 5
    /\ rendered.datasets[2].label = "ARIMA Forecast (Best)"
    /\ rendered.datasets[3].label = "ARIMA Lower Bound (95% CI)"
    /\ rendered.datasets[4].label = "ARIMA Upper Bound (95% CI)"
    /\ rendered.datasets[5].label = "SMA Forecast"

\* a comes before b in ascending lexicographic order: ARIMA, ETS, SMA
Precedes(a, b) ==
    \E i, j \in DOMAIN ModelNames : i < j /\ ModelNames[i] = a /\ ModelNames[j] = b

\* C18: the forecast series of the view stand in ascending lexicographic
\* order of model name, whatever the order of the keys of modelResults.
C18_SeriesInNameOrder ==
    ViewRendered =>
        \A i, j \in DOMAIN rendered.datasets, a, b \in Range(ModelNames) :
            (/\ i < j
             /\ IsForecastSeries(rendered.datasets[i], a)
             /\ IsForecastSeries(rendered.datasets[j], b)) => Precedes(a, b)

\* C18 witness: the response lists ETS before ARIMA, the view ARIMA before ETS.
C18_Witness ==
    /\ ViewRendered
    /\ ObjectKeys(results.modelResults) = <<ETS, ARIMA>>
    /\ results.historicalData.items = <<>>
    /\ results.bestMethod = SMA
    /\ Len(rendered.datasets) = 2
    /\ rendered.datasets[1].label = "ARIMA Forecast"
    /\ rendered.datasets[2].label = "ETS Forecast"

\* a model whose forecast_data is missing or not a sequence, or which carries
\* a failure reason, has no series at all, the best model included; every
\* other model with a non-empty forecast sequence has exactly one forecast
\* series
SeriesPerModel ==
    \A k \in DOMAIN results.modelResults.entries :
        LET name == results.modelResults.entries[k].name
            modelData == results.modelResults.entries[k].data
        IN  /\ (\/ modelData.forecast_data.type # "array"
                \/ modelData.error # "") =>
                   /\ ForecastSeriesOf(name) = {}
                   /\ BandSeriesOf(name) = {}
            /\ Usable(modelData) => Cardinality(ForecastSeriesOf(name)) = 1

\* C19: for every response of the right shape, a model whose forecast_data is
\* missing or not a sequence, or which carries a failure reason, contributes
\* no series to the chart, the best model included, and every other model
\* with a non-empty forecast sequence contributes exactly one forecast series.
C19_SkippedModelsHaveNoSeries == ShapedRendered => SeriesPerModel

\* C19 restricted to the responses for which the view is returned
C19_InViews == ViewRendered => SeriesPerModel

\* positions of the series list holding a confidence-interval line
BandSeries ==
    {i \in DOMAIN rendered.datasets :
        \/ rendered.datasets[i].dashed
        \/ rendered.datasets[i].fill # "false"
        \/ \E name \in AnyName : IsBandSeries(rendered.datasets[i], name)}

\* C20: for every response the series list holds no band series or exactly
\* two, and every band series is one of the model named by bestMethod.
C20_BandsOnlyForBest ==
    Rendered =>
        /\ Cardinality(BandSeries) \in {0, 2}
        /\ \A i \in BandSeries : IsBandSeries(rendered.datasets[i], results.bestMethod)

\* C20 witness: three usable models with ETS the best: five series, of which
\* the two after ETS's line are its bounds.
C20_Witness ==
    /\ ViewRendered
    /\ results.bestMethod = ETS
    /\ \A name \in Range(ModelNames) : Usable(Member(results.modelResults, name))
    /\ results.historicalData.items = <<>>
    /\ Len(rendered.datasets) = 5
    /\ BandSeries = {3, 4}

\* the forecast points of a model entry: those of its forecast_data if that
\* is a sequence, none otherwise
PointsOf(modelData) ==
    IF modelData.forecast_data.type = "array" THEN modelData.forecast_data.items
    ELSE <<>>

\* a number as the table shows it, with two decimals
Shown(n) == ToText(IntToStr(n)) \o ".00"

\* the table has one row per forecast point of modelResults[bestMethod], in
\* the same order, each with that point's date, forecast value, lower bound
\* and upper bound; no row shows the forecast value of a point of another
\* model
RowsOfBestModel ==
    LET points == PointsOf(Member(results.modelResults, results.bestMethod))
    IN  /\ Len(rendered.rows) = Len(points)
        /\ \A i \in DOMAIN rendered.rows :
              /\ rendered.rows[i].Date = points[i].Date
              /\ rendered.rows[i].ForecastValue = Shown(points[i].ForecastValue)
              /\ rendered.rows[i].LowerBound = Shown(points[i].LowerBound)
              /\ rendered.rows[i].UpperBound = Shown(points[i].UpperBound)
              /\ \A k \in DOMAIN results.modelResults.entries :
                    LET other == results.modelResults.entries[k]
                    IN  other.name # results.bestMethod =>
                           \A j \in DOMAIN PointsOf(other.data) :
                              rendered.rows[i].ForecastValue #
                                  Shown(PointsOf(other.data)[j].ForecastValue)

\* C21: for every response of the right shape the table has one row per
\* forecast point of modelResults[bestMethod], in the same order, each with
\* that point's date, forecast value, lower bound and upper bound, and no row
\* from another model.
C21_TableFromBestModel == ShapedRendered => RowsOfBestModel

\* C21 restricted to the responses for which the view is returned
C21_InViews == ViewRendered => RowsOfBestModel

\* the two paragraphs that can accompany an empty table
DueToErrorMessage(name, reason) ==
    "Could not display forecast data for the best method (" \o ToText(name)
    \o ") due to an error: " \o reason
NoDataMessage(name) ==
    "No forecast data available for the best method (" \o ToText(name) \o ")."

\* C22: when the best model has no usable forecast sequence (its name is not
\* in modelResults, its forecast_data is missing or empty, or it carries a
\* failure reason) the table of the view has no rows and one message is
\* shown: the 'due to an error: X' one when the best model carries reason X,
\* the 'No forecast data available' one otherwise.
C22_NoUsableBestGivesMessage ==
    (ViewRendered /\ ~Usable(Member(results.modelResults, results.bestMethod))) =>
        LET best == Member(results.modelResults, results.bestMethod)
        IN  /\ rendered.rows = <<>>
            /\ rendered.message =
                  IF best.error # "" THEN DueToErrorMessage(results.bestMethod, best.error)
                  ELSE NoDataMessage(results.bestMethod)

\* positions of the series list holding a forecast series of any model
ForecastSeries == UNION {ForecastSeriesOf(name) : name \in AnyName}

\* C23: for a response of the right shape the evaluation summary has exactly
\* one entry per model of the response, and the entry of a model with a
\* failure reason shows that reason; when every model is skipped from the
\* chart there is no forecast series and no error indicator.
C23_SummaryListsEveryModel ==
    ShapedRendered =>
        LET entries == results.modelResults.entries
        IN  /\ Len(rendered.evaluation) = Len(entries)
            /\ \A k \in DOMAIN entries :
                  /\ Cardinality({i \in DOMAIN rendered.evaluation :
                         rendered.evaluation[i].name = entries[k].name}) = 1
                  /\ entries[k].data.error # "" =>
                        \E i \in DOMAIN rendered.evaluation :
                           /\ rendered.evaluation[i].name = entries[k].name
                           /\ rendered.evaluation[i].text =
                                  "Error: " \o entries[k].data.error
            /\ (\A k \in DOMAIN entries : ~Usable(entries[k].data)) =>
                  /\ ForecastSeries = {}
                  /\ rendered.kind # "error"

\* C23 restricted to the responses for which the view is returned
C23_InViews == ViewRendered => C23_SummaryListsEveryModel

\* positions of the series list holding the historical series
HistoricalSeries ==
    {i \in DOMAIN rendered.datasets : rendered.datasets[i].label = "Historical Data"}

\* C24: for a response of the right shape the series list holds a historical
\* series exactly when historicalData is not empty; an empty historicalData
\* gives no historical series and no error indicator; the historical series
\* is the first series and has one point per record, in the record order.
C24_HistoricalSeriesFirst ==
    ShapedRendered =>
        LET records == results.historicalData.items
        IN  /\ rendered.kind # "error"
            /\ IF records = <<>> THEN HistoricalSeries = {}
               ELSE /\ HistoricalSeries = {1}
                    /\ Len(rendered.datasets[1].data) = Len(records)
                    /\ \A j \in DOMAIN records :
                          /\ rendered.datasets[1].data[j].x = records[j].Date
                          /\ rendered.datasets[1].data[j].y = records[j].Value

\* C24 restricted to the responses for which the view is returned
C24_InViews == ViewRendered => C24_HistoricalSeriesFirst

\* C25 as stated: in every series list, where the forecast line of the best
\* model has bounds, the lower-bound series stands immediately before it and
\* the upper-bound series immediately after it.
C25_BandsBracketForecast ==
    Rendered =>
        LET ds == rendered.datasets
            best == results.bestMethod
        IN  \A i \in ForecastSeriesOf(best) :
                BandSeriesOf(best) # {} =>
                   /\ i - 1 \in DOMAIN ds
                   /\ ds[i - 1].label = LowerLabel(best)
                   /\ i + 1 \in DOMAIN ds
                   /\ ds[i + 1].label = UpperLabel(best)

\* C25: in every series list, the lower-bound series of the best model stands
\* immediately after the forecast line of that model and immediately before
\* its upper-bound series, and an upper-bound series stands immediately after
\* the lower-bound series: the order is forecast line, lower bound, upper
\* bound.
C25_BandsFollowForecast ==
    Rendered =>
        LET ds == rendered.datasets
        IN  \A i \in DOMAIN ds, name \in AnyName :
                /\ ds[i].label = LowerLabel(name) =>
                      /\ name = results.bestMethod
                      /\ i - 1 \in DOMAIN ds
                      /\ ds[i - 1].label = ToText(name) \o " Forecast (Best)"
                      /\ i + 1 \in DOMAIN ds
                      /\ ds[i + 1].label = UpperLabel(name)
                /\ ds[i].label = UpperLabel(name) =>
                      /\ i - 2 \in DOMAIN ds
                      /\ ds[i - 1].label = LowerLabel(name)
                      /\ ds[i - 2].label = ToText(name) \o " Forecast (Best)"

\* C26: when every issued request comes to its end, every forecast request
\* that was issued ends and isLoadingForecast becomes false again: the
\* loading flag is set only while a request is outstanding, a click without
\* the file leaves it false, and both a response and a failure clear it.
C26_LoadingEnds ==
    /\ [](isLoadingForecast => pending # <<>>)
    /\ (pending # <<>>) ~> (pending = <<>> /\ ~isLoadingForecast)
    /\ isLoadingForecast ~> ~isLoadingForecast

\* C26 witness: a request was issued and timed out without response; the
\* stage is no longer loading and no request is outstanding.
C26_Witness ==
    /\ lastEvent.type = "failure"
    /\ errorMessage = MsgNoResponse
    /\ pending = <<>>
    /\ ~isLoadingForecast
    /\ file = TheFile

\* the stages App shows in the current state
StagesShown ==
    {stage \in {"upload", "columns", "results"} :
        \/ stage = "upload" /\ FileUploadShown
        \/ stage = "columns" /\ ColumnSelectorShown
        \/ stage = "results" /\ ResultsShown}

\* C27: in every reachable state of the wizard exactly one stage is shown:
\* the upload stage while no upload has succeeded, and the column-selection
\* stage right after an upload has succeeded.
C27_ExactlyOneStage ==
    /\ Cardinality(StagesShown) = 1
    /\ lastEvent.type = "uploaded" => StagesShown = {"columns"}
    /\ ~TruthyData(uploadInfo) => StagesShown = {"upload"}

\* C28: for every response that passes the shape check, models without an
\* evaluation metric, without a forecast sequence, with a failure reason or
\* with a null entry included, ForecastResults returns the view with its
\* summary, series list and table; for a response that does not pass it, the
\* error indicator. No render ends in an exception.
C28_RenderCompletes ==
    Rendered =>
        /\ rendered.kind # "threw"
        /\ rendered.kind = (IF InvalidStructure(results) THEN "error" ELSE "view")
        /\ ~InvalidStructure(results) =>
              Len(rendered.evaluation) = Len(ObjectKeys(results.modelResults))

\* the position a relative fill reference designates: '+1' the next series,
\* '-1' the previous one
FillTarget(i) ==
    IF rendered.datasets[i].fill = "+1" THEN i + 1
    ELSE IF rendered.datasets[i].fill = "-1" THEN i - 1
    ELSE i

\* C30: in every series list, a fill reference is carried only by band
\* series, '+1' by a lower bound and '-1' by an upper bound; the reference of
\* a lower bound designates the upper bound of the same model and that of an
\* upper bound the lower bound of the same model; the historical series and
\* the forecast lines carry no fill reference and none designates them.
C30_FillReferencesPairBands ==
    Rendered =>
        LET ds == rendered.datasets
        IN  \A i \in DOMAIN ds :
                /\ ds[i].fill \in {"false", "+1", "-1"}
                /\ (ds[i].label = "Historical Data"
                       \/ \E name \in AnyName : IsForecastSeries(ds[i], name))
                      => ds[i].fill = "false"
                /\ ds[i].fill # "false" =>
                      /\ FillTarget(i) \in DOMAIN ds
                      /\ \E name \in AnyName :
                            \/ /\ ds[i].fill = "+1"
                               /\ ds[i].label = LowerLabel(name)
                               /\ ds[FillTarget(i)].label = UpperLabel(name)
                               /\ ds[FillTarget(i)].fill = "-1"
                            \/ /\ ds[i].fill = "-1"
                               /\ ds[i].label = UpperLabel(name)
                               /\ ds[FillTarget(i)].label = LowerLabel(name)
                               /\ ds[FillTarget(i)].fill = "+1"
                /\ (\E name \in AnyName : IsBandSeries(ds[i], name)) => ds[i].fill # "false"

\* C30 witness: SMA is the best of three usable models and there is
\* historical data: the list ends with SMA's line and its two bounds, whose
\* fill references designate each other; the four series before carry none.
C30_Witness ==
    /\ ViewRendered
    /\ results.bestMethod = SMA
    /\ Len(rendered.datasets) = 6
    /\ rendered.datasets[1].label = "Historical Data"
    /\ \A i \in 1..4 : rendered.datasets[i].fill = "false"
    /\ rendered.datasets[5].fill = "+1" /\ FillTarget(5) = 6
    /\ rendered.datasets[6].fill = "-1" /\ FillTarget(6) = 5

====
